---- MODULE Spec2Model ----
(***************************************************************************)
(* Request lifecycle engine of the Kassa bot (index.js + models.js):       *)
(* the per-user conversation flows that create deposit/withdraw requests,  *)
(* the admin approve/reject handler and the expiry sweeper.                *)
(*                                                                         *)
(* Every handler is an async function; each `await` on the store is a      *)
(* point where other handlers and the sweeper may run, so a handler is     *)
(* modelled as a process with one step per store statement.  Messages to   *)
(* Telegram change no program state and are folded into the step that      *)
(* precedes them, except the messages that end a decision handler and the  *)
(* messages whose failure changes the control flow.                        *)
(*                                                                         *)
(* Text is a sequence of one-character strings.  A nullable value is the   *)
(* empty set (null/undefined) or a singleton set (the value).              *)
(* Time is counted in minutes.                                             *)
(***************************************************************************)
EXTENDS Integers, Sequences, FiniteSets, TLC

\* ---------------------------------------------------------------- bounds
MaxTime == 5
MaxRequests == 1
MaxHandlers == 1
MaxInflight == 1
MaxProviders == 2

\* ------------------------------------------------------- configuration
MIN_DEPOSIT == 5000
CHECK_TIMEOUT_MIN == 5

None == {}
Some(v) == {v}
Val(o) == CHOOSE v \in o : TRUE

\* ------------------------------------------------------------- text
DigitSeq == <<"0", "1", "2", "3", "4", "5", "6", "7", "8", "9">>
LowerSeq == <<"a", "b", "c", "d", "e", "f", "g", "h", "i", "j", "k", "l", "m",
              "n", "o", "p", "q", "r", "s", "t", "u", "v", "w", "x", "y", "z">>
UpperSeq == <<"A", "B", "C", "D", "E", "F", "G", "H", "I", "J", "K", "L", "M",
              "N", "O", "P", "Q", "R", "S", "T", "U", "V", "W", "X", "Y", "Z">>
Range(s) == {s[i] : i \in DOMAIN s}
Digits == Range(DigitSeq)
IndexIn(s, c) == CHOOSE i \in DOMAIN s : s[i] = c
DigitVal(c) == IndexIn(DigitSeq, c) - 1
IsSpace(c) == c = " "

\* String.prototype.toUpperCase / toLowerCase, character by character
UpperChar(c) == IF c \in Range(LowerSeq) THEN UpperSeq[IndexIn(LowerSeq, c)] ELSE c
LowerChar(c) == IF c \in Range(UpperSeq) THEN LowerSeq[IndexIn(UpperSeq, c)] ELSE c
toUpperCase(t) == [i \in DOMAIN t |-> UpperChar(t[i])]
toLowerCase(t) == [i \in DOMAIN t |-> LowerChar(t[i])]

\* String.prototype.trim
RECURSIVE TrimLeft(_)
TrimLeft(t) == IF t # <<>> /\ IsSpace(Head(t)) THEN TrimLeft(Tail(t)) ELSE t
RECURSIVE TrimRight(_)
TrimRight(t) ==
  IF t # <<>> /\ IsSpace(t[Len(t)]) THEN TrimRight(SubSeq(t, 1, Len(t) - 1)) ELSE t
trim(t) == TrimRight(TrimLeft(t))

\* t.replace(/\s+/g, "")
StripSpaces(t) == SelectSeq(t, LAMBDA c : ~IsSpace(c))
\* val.toLowerCase().replace(/[^a-z0-9]+/g, "")
Slug(t) == SelectSeq(toLowerCase(t), LAMBDA c : c \in Range(LowerSeq) \cup Digits)

\* parseInt(t, 10): leading blanks, an optional sign, then the longest run of
\* digits; NaN (here None) when there is no digit.
RECURSIVE DigitRun(_)
DigitRun(t) == IF t # <<>> /\ Head(t) \in Digits THEN <<Head(t)>> \o DigitRun(Tail(t)) ELSE <<>>
RECURSIVE DecValue(_)
DecValue(d) ==
  IF d = <<>> THEN 0 ELSE 10 * DecValue(SubSeq(d, 1, Len(d) - 1)) + DigitVal(d[Len(d)])
parseInt(t) ==
  LET u == TrimLeft(t)
      neg == u # <<>> /\ Head(u) = "-"
      body == IF u # <<>> /\ Head(u) \in {"-", "+"} THEN Tail(u) ELSE u
      run == DigitRun(body)
  IN IF run = <<>> THEN None
     ELSE Some(IF neg THEN 0 - DecValue(run) ELSE DecValue(run))

\* String(userId) for a non-negative integer id
RECURSIVE String(_)
String(n) == IF n < 10 THEN <<DigitSeq[n + 1]>> ELSE String(n \div 10) \o <<DigitSeq[(n % 10) + 1]>>

\* variant: the code may have any length
validateSecretCode_AnyLength(code) ==
  \A i \in DOMAIN code : code[i] \in Range(UpperSeq) \cup Digits
\* /^[A-Z0-9]{4}$/.test(code)
validateSecretCode(code) ==
  Len(code) = 4 /\ \A i \in DOMAIN code : code[i] \in Range(UpperSeq) \cup Digits
\* /^\d{12,20}$/.test(card)
ValidCard(card) ==
  Len(card) >= 12 /\ Len(card) <= 20 /\ \A i \in DOMAIN card : card[i] \in Digits

\* ------------------------------------------------------ configuration
Users == 1 .. 3
\* the identities that run the deposit and withdraw flows
FlowUsers == {3}
\* ADMIN_IDS as read from the environment: "1,2" split, trimmed, non-empty
ADMIN_IDS == {<<"1">>, <<"2">>}
\* variant: the administrator check lets every identity through
isAdmin_Anyone(userId) == TRUE
isAdmin(userId) == String(userId) \in ADMIN_IDS

\* the default provider seeded by ensureDefaultProvider
ColdBetId == <<"c", "o", "l", "d", "b", "e", "t">>
ColdBetName == <<"C", "o", "l", "d", "B", "e", "t">>
DefaultProviders == {[id |-> ColdBetId, name |-> ColdBetName]}

\* the menu texts matched by bot.hears (the apostrophe stands for U+2018)
MENU_DEPOSIT == <<"H", "i", "s", "o", "b", "n", "i", " ", "t", "o", "'", "l", "d", "i", "r", "i", "s", "h">>
MENU_WITHDRAW == <<"H", "i", "s", "o", "b", "d", "a", "n", " ", "y", "e", "c", "h", "i", "s", "h">>
MENU_MYCODE == <<"M", "e", "n", "i", "n", "g", " ", "k", "o", "d", "i", "m">>
MENU_CONTACT == <<"A", "l", "o", "q", "a">>
CMD_START == <<"/", "s", "t", "a", "r", "t">>
\* texts consumed by a handler registered before bot.on("text")
HearsTriggers == {MENU_DEPOSIT, MENU_WITHDRAW, MENU_MYCODE, MENU_CONTACT, CMD_START}

\* ------------------------------------------------------------ inputs
\* "5000" is an amount and a 4-character code but no card number;
\* "5000 0000 0000" is an amount and a card number but no code
T_Short == <<"5", "0", "0", "0">>
T_Long == <<"5", "0", "0", "0", " ", "0", "0", "0", "0", " ", "0", "0", "0", "0">>
Texts == {T_Short, T_Long}
\* "a9k" is no amount, no code and no card number; "a9k3" is a code once it
\* is in upper case
T_Bad == <<"a", "9", "k">>
T_Code == <<"a", "9", "k", "3">>
\* "9" is an integer below the minimum
T_Low == <<"9">>
FlowTexts == Texts \cup {T_Bad, T_Code, T_Low}
ProviderTokens == {ColdBetId, T_Short}
FileIds == {"photo1"}
\* the ids a decision callback may carry, and the handler slots
ReqIds == 1 .. MaxRequests
Handlers == 1 .. MaxHandlers
\* one slot more, for the specification of racing handlers
AllHandlers == 1 .. MaxHandlers + 1
ClockSteps == {CHECK_TIMEOUT_MIN}

\* ------------------------------------------------------------- state
VARIABLES
  now,        \* the wall clock, in minutes
  users,      \* users table: id -> None | Some(balance)
  providers,  \* providers table: set of [id, name]
  requests,   \* requests table: a function from the stored ids to their rows
  session,    \* telegraf session per user: [flow, data, adminMode]
  inflight,   \* per user: photo/card handlers that inserted a request and
              \* are notifying the admins (session not yet reset)
  adm,        \* the admin approve/reject handlers in flight
  sweep,      \* the expiry sweeper's async tick
  credits,    \* history: per request, how often its amount was added to a balance
  cancelled,  \* history: per user, a cancel has reset a session that held collected data
  made        \* history: per user, the requests created since the user's last menu command

vars == <<now, users, providers, requests, session, inflight, adm, sweep, credits, cancelled, made>>

EmptyData ==
  [step |-> "null", providerId |-> None, providerName |-> None, userGameId |-> None,
   amount |-> None, expiresAt |-> None, code |-> None, card |-> None]
\* defaultSession: () => ({ flow: null, data: {}, adminMode: null })
DefaultSession == [flow |-> "null", data |-> EmptyData, adminMode |-> "null"]

IdleHandler ==
  [pc |-> "idle", actor |-> 0, action |-> "none", id |-> 0, req |-> None,
   userRow |-> None, result |-> "none", delivered |-> "none"]
IdleSweep == [pc |-> "idle", now |-> 0, pend |-> <<>>, i |-> 0]

Init ==
  /\ now = 0
  /\ users = [u \in Users |-> None]
  /\ providers = DefaultProviders
  /\ requests = <<>>
  /\ session = [u \in Users |-> DefaultSession]
  /\ inflight = [u \in Users |-> 0]
  /\ adm = [h \in AllHandlers |-> IdleHandler]
  /\ sweep = IdleSweep
  /\ credits = <<>>
  /\ cancelled = [u \in Users |-> FALSE]
  /\ made = [u \in Users |-> 0]

\* ------------------------------------------------------ store helpers
\* JavaScript's `v || null` on a number: 0 and undefined both give null
OrNull(o) == IF o = None \/ Val(o) = 0 THEN None ELSE o

\* listProviders(): SELECT id,name FROM providers
listProviders == providers

\* the lookup of bot.action(/^prov:(.+)$/): by id, and failing that by name
FindProvider(pid) ==
  LET byId == {p \in providers : p.id = pid}
      byName == {p \in providers : p.name = pid}
  IN IF byId # {} THEN byId ELSE byName

\* ensureUser(user): the users table after the call
ensureUser(user) ==
  IF users[user] = None THEN [users EXCEPT ![user] = Some(0)] ELSE users

Existing == DOMAIN requests
Row(id) == requests[id]

\* nanoid(): an id no stored request has (the ids are numbered in creation order)
nanoid == Cardinality(Existing) + 1
\* the requests table has room for another row
HasRoomFor(rows) == Cardinality(Existing) < rows
HasRoom == HasRoomFor(MaxRequests)

\* createRequest(req): the requests table after the INSERT
InsertRequest(table, req) ==
  table @@ (req.id :>
     [user_id |-> req.user_id,
      provider_id |-> req.provider_id,
      provider_name |-> req.provider_name,
      type |-> req.type,
      amount |-> OrNull(req.amount),
      details |-> req.details,
      status |-> req.status,
      created_at |-> now,
      expires_at |-> req.expires_at,
      resolved_at |-> None,
      admin_note |-> None])
createRequest(req) == InsertRequest(requests, req)

\* ------------------------------------------------------- flow engine
SetSession(u, s) == session' = [session EXCEPT ![u] = s]

\* bot.start
Start(u) ==
  /\ users' = ensureUser(u)
  /\ UNCHANGED <<now, providers, requests, session, inflight, adm, sweep, credits, cancelled, made>>

\* bot.hears("Mening kodim")
MyCode(u) ==
  /\ users' = ensureUser(u)
  /\ UNCHANGED <<now, providers, requests, session, inflight, adm, sweep, credits, cancelled, made>>

\* bot.hears("Hisobni to'ldirish") / bot.hears("Hisobdan yechish"); when the
\* subscription gate or the empty provider list stops the handler nothing changes
MenuFlow(u, flow) ==
  /\ listProviders # {}
  /\ SetSession(u, [session[u] EXCEPT !.flow = flow, !.data = EmptyData])
  /\ made' = [made EXCEPT ![u] = 0]
  /\ UNCHANGED <<now, users, providers, requests, inflight, adm, sweep, credits, cancelled>>

HearsDeposit(u) == MenuFlow(u, "deposit")
HearsWithdraw(u) == MenuFlow(u, "withdraw")

\* variant: choosing the provider leads straight to the last step of the flow
FirstStep_Last(flow, step) ==
  IF flow = "deposit" THEN "deposit_wait_check"
  ELSE IF flow = "withdraw" THEN "withdraw_card"
  ELSE step
\* the first step of a flow after the provider is chosen
FirstStep(flow, step) ==
  IF flow = "deposit" THEN "deposit_userid"
  ELSE IF flow = "withdraw" THEN "withdraw_userid"
  ELSE step

\* bot.action(/^prov:(.+)$/)
ProvAction(u, pid) ==
  /\ FindProvider(pid) # {}
  /\ \E prov \in FindProvider(pid) :
       SetSession(u, [session[u] EXCEPT
         !.data.providerId = Some(prov.id),
         !.data.providerName = Some(prov.name),
         !.data.step = FirstStep(session[u].flow, @)])
  /\ UNCHANGED <<now, users, providers, requests, inflight, adm, sweep, credits, cancelled, made>>

\* variant: the cancel leaves the flow and keeps the collected data
Cancel_KeepData(u) ==
  /\ SetSession(u, [session[u] EXCEPT !.flow = "null"])
  /\ cancelled' = [cancelled EXCEPT ![u] = @ \/ session[u].data.userGameId # None]
  /\ UNCHANGED <<now, users, providers, requests, inflight, adm, sweep, credits, made>>
\* bot.action("cancel_flow")
Cancel(u) ==
  /\ SetSession(u, [session[u] EXCEPT !.flow = "null", !.data = EmptyData])
  /\ cancelled' = [cancelled EXCEPT ![u] = @ \/ session[u].data.userGameId # None]
  /\ UNCHANGED <<now, users, providers, requests, inflight, adm, sweep, credits, made>>

\* bot.action("ap:add") / bot.action("ap:remove")
ApMode(u, mode) ==
  /\ isAdmin(u)
  /\ SetSession(u, [session[u] EXCEPT !.adminMode = mode])
  /\ UNCHANGED <<now, users, providers, requests, inflight, adm, sweep, credits, cancelled, made>>

ApAdd(u) == ApMode(u, "add_provider")
ApRemove(u) == ApMode(u, "remove_provider")

\* "prov" + Math.floor(Math.random() * 10000), the id of a name without letters or digits
RandomProviderIds == {<<"p", "r", "o", "v", "7">>}

\* bot.on("text"), admin mode: INSERT OR IGNORE INTO providers / DELETE FROM providers
AddProvider(val, id) ==
  IF \E p \in providers : p.id = id THEN providers
  ELSE providers \cup {[id |-> id, name |-> val]}
RemoveProvider(val) ==
  LET key == toLowerCase(val)
  IN {p \in providers : ~(p.id = key \/ toLowerCase(p.name) = toLowerCase(key))}

TextAdminMode(u, t) ==
  /\ IF session[u].adminMode = "add_provider"
     THEN /\ \E id \in (IF Slug(t) # <<>> THEN {Slug(t)} ELSE RandomProviderIds) :
               providers' = AddProvider(t, id)
          /\ Cardinality(providers') <= MaxProviders
          /\ SetSession(u, [session[u] EXCEPT !.adminMode = "null"])
     ELSE IF session[u].adminMode = "remove_provider"
     THEN /\ providers' = RemoveProvider(t)
          /\ SetSession(u, [session[u] EXCEPT !.adminMode = "null"])
     ELSE UNCHANGED <<providers, session>>
  /\ UNCHANGED <<now, users, requests, inflight, adm, sweep, credits, cancelled, made>>

\* variant: the amount step accepts every integer
AmountAccepted_NoMinimum(t) == parseInt(t) # None
\* the amount typed at the deposit_amount step: accepted or not
AmountAccepted(t) == parseInt(t) # None /\ Val(parseInt(t)) >= MIN_DEPOSIT

\* bot.on("text"), s.flow === "deposit"
TextDeposit(u, t) ==
  /\ IF session[u].data.step = "deposit_userid"
     THEN SetSession(u, [session[u] EXCEPT
            !.data.userGameId = Some(t), !.data.step = "deposit_amount"])
     ELSE IF session[u].data.step = "deposit_amount" /\ AmountAccepted(t)
     THEN SetSession(u, [session[u] EXCEPT
            !.data.amount = parseInt(t),
            !.data.step = "deposit_wait_check",
            !.data.expiresAt = Some(now + CHECK_TIMEOUT_MIN)])
     ELSE UNCHANGED session
  /\ UNCHANGED <<now, users, providers, requests, inflight, adm, sweep, credits, cancelled, made>>

\* variant: the withdraw request is given the deposit's deadline
WithdrawRequest_WithDeadline(id, u, d, card) ==
  [id |-> id, user_id |-> u, provider_id |-> d.providerId,
   provider_name |-> d.providerName, type |-> "withdraw", amount |-> None,
   details |-> [userGameId |-> d.userGameId, checkFileId |-> None,
                code |-> d.code, card |-> Some(card)],
   status |-> "pending", expires_at |-> Some(now + CHECK_TIMEOUT_MIN)]
\* the withdraw request built at the withdraw_card step
WithdrawRequest(id, u, d, card) ==
  [id |-> id, user_id |-> u, provider_id |-> d.providerId,
   provider_name |-> d.providerName, type |-> "withdraw", amount |-> None,
   details |-> [userGameId |-> d.userGameId, checkFileId |-> None,
                code |-> d.code, card |-> Some(card)],
   status |-> "pending", expires_at |-> None]

\* bot.on("text"), s.flow === "withdraw"; the withdraw_card step runs up to
\* the INSERT of createRequest; the store holds at most `rows` requests and at
\* most `par` handlers of one user are between the INSERT and their end
TextWithdrawIn(u, t, rows, par) ==
  /\ IF session[u].data.step = "withdraw_userid"
     THEN /\ SetSession(u, [session[u] EXCEPT
               !.data.userGameId = Some(t), !.data.step = "withdraw_code"])
          /\ UNCHANGED <<requests, inflight, credits, cancelled, made>>
     ELSE IF session[u].data.step = "withdraw_code" /\ validateSecretCode(toUpperCase(t))
     THEN /\ SetSession(u, [session[u] EXCEPT
               !.data.code = Some(toUpperCase(t)), !.data.step = "withdraw_card"])
          /\ UNCHANGED <<requests, inflight, credits, cancelled, made>>
     ELSE IF session[u].data.step = "withdraw_card" /\ ValidCard(StripSpaces(t))
     THEN /\ HasRoomFor(rows) /\ inflight[u] < par
          /\ SetSession(u, [session[u] EXCEPT !.data.card = Some(StripSpaces(t))])
          /\ requests' = createRequest(WithdrawRequest(nanoid, u, session[u].data, StripSpaces(t)))
          /\ credits' = credits @@ (nanoid :> 0)
          /\ inflight' = [inflight EXCEPT ![u] = @ + 1]
          /\ made' = [made EXCEPT ![u] = @ + 1]
     ELSE UNCHANGED <<session, requests, inflight, credits, cancelled, made>>
  /\ UNCHANGED <<now, users, providers, adm, sweep, cancelled>>
TextWithdraw(u, t) == TextWithdrawIn(u, t, MaxRequests, MaxInflight)

\* bot.on("text"): the message reaches this handler unless an earlier handler
\* (bot.start, bot.hears) matched its text
OnTextIn(u, raw, rows, par) ==
  /\ raw \notin HearsTriggers
  /\ IF isAdmin(u) /\ session[u].adminMode # "null" THEN TextAdminMode(u, trim(raw))
     ELSE IF session[u].flow = "deposit" THEN TextDeposit(u, trim(raw))
     ELSE IF session[u].flow = "withdraw" THEN TextWithdrawIn(u, trim(raw), rows, par)
     ELSE UNCHANGED vars
OnText(u, raw) == OnTextIn(u, raw, MaxRequests, MaxInflight)

\* variant: the deadline is counted from the arrival of the photo
DepositRequest_FromPhoto(id, u, d, fileId, at) ==
  [id |-> id, user_id |-> u, provider_id |-> d.providerId,
   provider_name |-> d.providerName, type |-> "deposit", amount |-> d.amount,
   details |-> [userGameId |-> d.userGameId, checkFileId |-> Some(fileId),
                code |-> None, card |-> None],
   status |-> "pending",
   expires_at |-> Some(at + CHECK_TIMEOUT_MIN)]
\* the deposit request built by bot.on("photo")
DepositRequest(id, u, d, fileId, at) ==
  [id |-> id, user_id |-> u, provider_id |-> d.providerId,
   provider_name |-> d.providerName, type |-> "deposit", amount |-> d.amount,
   details |-> [userGameId |-> d.userGameId, checkFileId |-> Some(fileId),
                code |-> None, card |-> None],
   status |-> "pending",
   expires_at |-> IF d.expiresAt # None THEN d.expiresAt ELSE Some(at + CHECK_TIMEOUT_MIN)]

\* bot.on("photo") up to the INSERT of createRequest
PhotoIn(u, fileId, rows, par) ==
  /\ session[u].flow = "deposit" /\ session[u].data.step = "deposit_wait_check"
  /\ HasRoomFor(rows) /\ inflight[u] < par
  /\ requests' = createRequest(DepositRequest(nanoid, u, session[u].data, fileId, now))
  /\ credits' = credits @@ (nanoid :> 0)
  /\ inflight' = [inflight EXCEPT ![u] = @ + 1]
  /\ made' = [made EXCEPT ![u] = @ + 1]
  /\ UNCHANGED <<now, users, providers, session, adm, sweep, cancelled>>
Photo(u, fileId) == PhotoIn(u, fileId, MaxRequests, MaxInflight)

\* the tail of bot.on("photo") and of the withdraw_card step: every admin was
\* notified, the session is reset
FlowFinish(u) ==
  /\ inflight[u] > 0
  /\ inflight' = [inflight EXCEPT ![u] = @ - 1]
  /\ SetSession(u, [session[u] EXCEPT !.flow = "null", !.data = EmptyData])
  /\ UNCHANGED <<now, users, providers, requests, adm, sweep, credits, cancelled, made>>

\* a message to an admin is rejected by Telegram: the handler ends in bot.catch
\* before the session is reset
FlowNotifyFail(u) ==
  /\ inflight[u] > 0
  /\ inflight' = [inflight EXCEPT ![u] = @ - 1]
  /\ UNCHANGED <<now, users, providers, requests, session, adm, sweep, credits, cancelled, made>>

\* time passes
Advance ==
  /\ \E d \in ClockSteps : now + d <= MaxTime /\ now' = now + d
  /\ UNCHANGED <<users, providers, requests, session, inflight, adm, sweep, credits, cancelled, made>>

\* the updates that users us may send, with the texts they may type
FlowNextIn(us, texts, rows, par) ==
  \/ \E u \in us : Start(u) \/ MyCode(u) \/ HearsDeposit(u) \/ HearsWithdraw(u)
  \/ \E u \in us : Cancel(u)
  \/ \E u \in us, pid \in ProviderTokens : ProvAction(u, pid)
  \/ \E u \in us, raw \in texts : OnTextIn(u, raw, rows, par)
  \/ \E u \in us, f \in FileIds : PhotoIn(u, f, rows, par)
  \/ \E u \in us : FlowFinish(u) \/ FlowNotifyFail(u)
  \/ Advance
FlowNextOver(us, texts) == FlowNextIn(us, texts, MaxRequests, MaxInflight)

FlowNext == FlowNextOver(FlowUsers, Texts)

\* -------------------------------------------------- approval controller
\* variant: the decision handler without its `status !== "pending"` return
GetOutcome_NoGuard(id) == IF id \notin DOMAIN requests THEN "NotFound" ELSE "Pending"
\* getRequest(id) followed by the two early returns of the decision handler
GetOutcome(id) ==
  IF id \notin Existing THEN "NotFound"
  ELSE IF Row(id).status # "pending" THEN "AlreadyResolved"
  ELSE "Pending"

\* updateRequestStatus(id, status, admin_note): the requests table after the UPDATE
updateRequestStatus(id, status, admin_note) ==
  [requests EXCEPT ![id] = [Row(id) EXCEPT
     !.status = status, !.resolved_at = Some(now), !.admin_note = Some(admin_note)]]

\* req.amount || (details.amount || 0): no handler stores an amount in details
CreditAmount(req) == IF req.amount = None THEN 0 ELSE Val(req.amount)

\* variant: a rejection credits the deposit as well
Credits_AnyDecision(action, req) ==
  req.type = "deposit" /\ (IF req.amount = {} THEN 0 ELSE CHOOSE v \in req.amount : TRUE) > 0
\* the handler goes on to credit the balance after the status write
Credits(action, req) ==
  action = "approve" /\ req.type = "deposit" /\ CreditAmount(req) > 0

DecisionStatus(action) == IF action = "approve" THEN "approved" ELSE "rejected"
DecisionNote(action, actor) ==
  IF action = "approve" THEN <<"Manually approved by", actor>> ELSE <<"Rejected by", actor>>
DecisionResult(action) == IF action = "approve" THEN "Approved" ELSE "Rejected"

\* the handler returns: its slot is free again and keeps what it answered
Return(h, result) ==
  adm' = [adm EXCEPT ![h] = [IdleHandler EXCEPT !.result = result]]

\* bot.action(/^admin:(approve|reject):([A-Z0-9]{8})$/): the callback arrives
AdmStart(h, actor, action, id) ==
  /\ adm[h].pc = "idle" /\ \A g \in AllHandlers : g < h => adm[g].pc # "idle"
  /\ adm' = [adm EXCEPT ![h] =
       IF isAdmin(actor)
       THEN [IdleHandler EXCEPT !.pc = "get", !.actor = actor, !.action = action, !.id = id]
       ELSE [IdleHandler EXCEPT !.result = "Unauthorized"]]
  /\ UNCHANGED <<now, users, providers, requests, session, inflight, sweep, credits, cancelled, made>>

\* const req = await getRequest(id) and the NotFound / AlreadyResolved returns
AdmGet(h) ==
  /\ adm[h].pc = "get"
  /\ IF GetOutcome(adm[h].id) = "Pending"
     THEN adm' = [adm EXCEPT ![h].pc = "update", ![h].req = Some(Row(adm[h].id))]
     ELSE Return(h, GetOutcome(adm[h].id))
  /\ UNCHANGED <<now, users, providers, requests, session, inflight, sweep, credits, cancelled, made>>

\* await updateRequestStatus(id, "approved" | "rejected", note)
AdmUpdate(h) ==
  /\ adm[h].pc = "update"
  /\ requests' = updateRequestStatus(adm[h].id, DecisionStatus(adm[h].action),
                                     DecisionNote(adm[h].action, adm[h].actor))
  /\ IF Credits(adm[h].action, Val(adm[h].req))
     THEN adm' = [adm EXCEPT ![h].pc = "readBalance"]
     ELSE adm' = [adm EXCEPT ![h].pc = "notify"]
  /\ UNCHANGED <<now, users, providers, session, inflight, sweep, credits, cancelled, made>>

\* const userRow = await db.get("SELECT balance FROM users WHERE id=?")
AdmReadBalance(h) ==
  /\ adm[h].pc = "readBalance"
  /\ IF users[Val(adm[h].req).user_id] # None
     THEN adm' = [adm EXCEPT ![h].pc = "writeBalance",
                             ![h].userRow = users[Val(adm[h].req).user_id]]
     ELSE adm' = [adm EXCEPT ![h].pc = "notify"]
  /\ UNCHANGED <<now, users, providers, requests, session, inflight, sweep, credits, cancelled, made>>

\* variant: the balance is written back without the amount
NewBalance_Lost(userRow, amount) == Val(userRow)
\* the balance written by UPDATE users SET balance = ?
NewBalance(userRow, amount) == Val(userRow) + amount

\* await db.run("UPDATE users SET balance = ? WHERE id = ?", ...)
AdmWriteBalance(h) ==
  /\ adm[h].pc = "writeBalance"
  /\ users' = [users EXCEPT ![Val(adm[h].req).user_id] =
                 Some(NewBalance(adm[h].userRow, CreditAmount(Val(adm[h].req))))]
  /\ credits' = [credits EXCEPT ![adm[h].id] = @ + 1]
  /\ adm' = [adm EXCEPT ![h].pc = "notify"]
  /\ UNCHANGED <<now, providers, requests, session, inflight, sweep, cancelled, made>>

\* the messages that end the handler
Deliveries == {"sent", "failed"}

\* variant: a message that cannot be delivered takes the decision back
AdmNotify_Undo(h) ==
  /\ adm[h].pc = "notify"
  /\ \E d \in Deliveries :
       /\ adm' = [adm EXCEPT ![h] =
            [IdleHandler EXCEPT !.result = DecisionResult(adm[h].action), !.delivered = d]]
       /\ requests' = IF d = "failed"
                      THEN [requests EXCEPT ![adm[h].id].status = "pending"]
                      ELSE requests
  /\ UNCHANGED <<now, users, providers, session, inflight, sweep, credits, cancelled, made>>
\* try { await bot.telegram.sendMessage(req.user_id, ...) } catch {} and
\* try { await ctx.editMessageText(...) } catch {}: delivered or not, the
\* handler returns
AdmNotify(h) ==
  /\ adm[h].pc = "notify"
  /\ \E d \in Deliveries :
       adm' = [adm EXCEPT ![h] =
         [IdleHandler EXCEPT !.result = DecisionResult(adm[h].action), !.delivered = d]]
  /\ UNCHANGED <<now, users, providers, requests, session, inflight, sweep, credits, cancelled, made>>

\* the store rejects the SELECT or the UPDATE of the balance: the handler ends
\* in bot.catch after the status was written
AdmStoreFail(h) ==
  /\ adm[h].pc \in {"readBalance", "writeBalance"}
  /\ Return(h, "StoreFailure")
  /\ UNCHANGED <<now, users, providers, requests, session, inflight, sweep, credits, cancelled, made>>

\* ------------------------------------------------------ expiry sweeper
\* SELECT * FROM requests WHERE status='pending' AND expires_at IS NOT NULL
PendingWithDeadline ==
  {id \in Existing : Row(id).status = "pending" /\ Row(id).expires_at # None}

\* the rows of a SELECT without ORDER BY come in any order
Orders(S) ==
  {q \in [1 .. Cardinality(S) -> S] : \A i, j \in DOMAIN q : i # j => q[i] # q[j]}
SweepRowOf(id) == [id |-> id, user_id |-> Row(id).user_id, expires_at |-> Row(id).expires_at]

\* variant: a deadline equal to the tick's time is not yet due
Due_Strict(r, at) == r.expires_at # None /\ Val(r.expires_at) < at
\* r.expires_at && r.expires_at <= now
Due(r, at) == r.expires_at # None /\ Val(r.expires_at) <= at

\* the timer fires: now is taken and the pending rows are selected
SweepStart ==
  /\ sweep.pc = "idle"
  /\ \E q \in Orders(PendingWithDeadline) :
       sweep' = IF q = <<>> THEN IdleSweep
                ELSE [pc |-> "loop", now |-> now,
                      pend |-> [k \in DOMAIN q |-> SweepRowOf(q[k])], i |-> 1]
  /\ UNCHANGED <<now, users, providers, requests, session, inflight, adm, credits, cancelled, made>>

\* UPDATE requests SET status='expired', resolved_at=? WHERE id=?
Expire(id, at) ==
  [requests EXCEPT ![id] = [Row(id) EXCEPT !.status = "expired", !.resolved_at = Some(at)]]

\* one turn of `for (const r of pend)`
SweepRow ==
  /\ sweep.pc = "loop"
  /\ requests' = IF Due(sweep.pend[sweep.i], sweep.now)
                 THEN Expire(sweep.pend[sweep.i].id, sweep.now)
                 ELSE requests
  /\ sweep' = IF sweep.i = Len(sweep.pend) THEN IdleSweep
              ELSE [sweep EXCEPT !.i = @ + 1]
  /\ UNCHANGED <<now, users, providers, session, inflight, adm, credits, cancelled, made>>

\* the store rejects the UPDATE of a due row: the throw leaves the for loop and
\* is caught by the try/catch around the whole tick
SweepStoreFail ==
  /\ sweep.pc = "loop"
  /\ Due(sweep.pend[sweep.i], sweep.now)
  /\ sweep' = IdleSweep
  /\ UNCHANGED <<now, users, providers, requests, session, inflight, adm, credits, cancelled, made>>

Actors == Users
Actions == {"approve", "reject"}

AdmNext(hs, ids) ==
  \/ \E h \in hs, actor \in Actors, action \in Actions, id \in ids :
       AdmStart(h, actor, action, id)
  \/ \E h \in hs : AdmGet(h) \/ AdmUpdate(h) \/ AdmReadBalance(h) \/ AdmWriteBalance(h)
  \/ \E h \in hs : AdmNotify(h)

\* the whole engine: flows, decisions and sweeper ticks interleave at every
\* await, and the store may fail between the status write and the balance write
Next ==
  \/ FlowNext
  \/ AdmNext(Handlers, ReqIds)
  \/ \E h \in Handlers : AdmStoreFail(h)
  \/ SweepStart
  \/ SweepRow
  \/ SweepStoreFail

Spec == Init /\ [][Next]_vars

\* no decision handler and no sweeper tick is running
Quiet == sweep.pc = "idle" /\ \A h \in AllHandlers : adm[h].pc = "idle"

\* The approval controller and the sweeper on their own start from a store
\* that the flows have filled: user 3 has completed two flows, each a deposit
\* or a withdraw, and has or has not pressed /start.
CompletedDeposit ==
  [EmptyData EXCEPT !.step = "deposit_wait_check", !.providerId = Some(ColdBetId),
                    !.providerName = Some(ColdBetName), !.userGameId = Some(T_Short),
                    !.amount = parseInt(T_Short), !.expiresAt = Some(CHECK_TIMEOUT_MIN)]
CompletedWithdraw ==
  [EmptyData EXCEPT !.step = "withdraw_card", !.providerId = Some(ColdBetId),
                    !.providerName = Some(ColdBetName), !.userGameId = Some(T_Short),
                    !.code = Some(toUpperCase(T_Short)), !.card = Some(StripSpaces(T_Long))]
FlowRequest(id, type) ==
  IF type = "deposit" THEN DepositRequest(id, 3, CompletedDeposit, "photo1", 0)
  ELSE WithdrawRequest(id, 3, CompletedWithdraw, StripSpaces(T_Long))
TwoRequests(t1, t2) ==
  InsertRequest(InsertRequest(<<>>, FlowRequest(1, t1)), FlowRequest(2, t2))
TwoDeposits == TwoRequests("deposit", "deposit")

InitStore(tables, balances) ==
  /\ now = 0
  /\ \E b \in balances : users = [u \in Users |-> IF u = 3 THEN b ELSE None]
  /\ providers = DefaultProviders
  /\ requests \in tables
  /\ session = [u \in Users |-> DefaultSession]
  /\ inflight = [u \in Users |-> 0]
  /\ adm = [h \in AllHandlers |-> IdleHandler]
  /\ sweep = IdleSweep
  /\ credits = [id \in {1, 2} |-> 0]
  /\ cancelled = [u \in Users |-> FALSE]
  /\ made = [u \in Users |-> IF u = 3 THEN 1 ELSE 0]

\* decisions and sweeper ticks are handled one after the other, each to its
\* end, with a store that does not fail
InitSeq ==
  InitStore({TwoRequests(t1, t2) : t1 \in {"deposit", "withdraw"}, t2 \in {"deposit", "withdraw"}},
            {None, Some(0)})
NextSeq ==
  \/ Quiet /\ \E actor \in Actors, action \in Actions, id \in {1, 2} :
                AdmStart(1, actor, action, id)
  \/ \E h \in Handlers : AdmGet(h) \/ AdmUpdate(h) \/ AdmReadBalance(h) \/ AdmWriteBalance(h)
  \/ \E h \in Handlers : AdmNotify(h)
  \/ Quiet /\ SweepStart
  \/ SweepRow
  \/ Advance
  \/ Start(3)

SpecSeq == InitSeq /\ [][NextSeq]_vars

\* the same, with a store that may reject the sweeper's UPDATE
NextSweepFail == NextSeq \/ SweepStoreFail

SpecSweepFail == InitSeq /\ [][NextSweepFail]_vars

\* the decision handlers race with each other on two pending deposits
InitRace == InitStore({TwoDeposits}, {Some(0)})
NextRace == AdmNext(AllHandlers, {1, 2})

SpecRace == InitRace /\ [][NextRace]_vars

\* the flow engine alone
NextFlow == FlowNextOver(FlowUsers, FlowTexts)

\* the flow engine driven by an administrator, who may also open the
\* provider modes of the admin panel
FlowAdmins == {1}
NextAdminMode ==
  \/ FlowNextOver(FlowAdmins, Texts)
  \/ \E u \in FlowAdmins : ApAdd(u) \/ ApRemove(u)

SpecAdminMode == Init /\ [][NextAdminMode]_vars

SpecFlow == Init /\ [][NextFlow]_vars

\* the flow engine alone, with room for a second request in the store and for
\* a second handler of the same user
NextResend == FlowNextIn(FlowUsers, Texts, MaxRequests + 1, MaxInflight + 1)

SpecResend == Init /\ [][NextResend]_vars

\* ============================================================ claims
Terminal(st) == st \in {"approved", "rejected", "expired"}
\* a decision handler writes the status in this step
WritesStatus(h) == adm[h].pc = "update" /\ adm'[h].pc # "update"
\* the requests of user u
RequestsOf(u) == {id \in Existing : Row(id).user_id = u}
RECURSIVE Credited(_)
Credited(ids) ==
  IF ids = {} THEN 0
  ELSE LET id == CHOOSE x \in ids : TRUE
       IN credits[id] * CreditAmount(Row(id)) + Credited(ids \ {id})

\* C1: once the status of a request is not pending it never changes again.
CE_C1_TerminalIsFinal ==
  [][\A id \in Existing : Row(id).status # "pending" => requests'[id].status = Row(id).status]_vars

\* C2: of two decision handlers racing on one pending request only one writes
\* the status: a handler writes the status of a request only while it is pending.
CE_C2_OneDecisionWins ==
  [][\A h \in AllHandlers : WritesStatus(h) => Row(adm[h].id).status = "pending"]_vars

\* C3: a decision on a request that is already resolved answers AlreadyResolved
\* and leaves the requests and the balances as the first decision left them.
Thm_C3_SecondResolveIsNoOp ==
  [][\A h \in AllHandlers :
       (adm[h].pc = "get" /\ adm'[h] # adm[h]
          /\ adm[h].id \in Existing /\ Row(adm[h].id).status # "pending")
       => (adm'[h].pc = "idle" /\ adm'[h].result = "AlreadyResolved"
             /\ requests' = requests /\ users' = users)]_vars
W_C3_SecondResolveRefused ==
  \E h \in AllHandlers, id \in Existing :
    adm[h].result = "AlreadyResolved" /\ Row(id).status = "approved" /\ credits[id] = 1

C4_Ledger ==
  /\ \A id \in Existing :
       /\ credits[id] <= 1
       /\ credits[id] = 1 => Row(id).type = "deposit" /\ Row(id).status = "approved"
  /\ \A u \in Users : users[u] # None => Val(users[u]) = Credited(RequestsOf(u))
C4_Approve ==
  \A h \in AllHandlers :
    /\ (adm[h].pc = "update" /\ adm'[h] # adm[h] /\ adm[h].action = "approve")
         => requests'[adm[h].id].status = "approved"
    /\ (adm[h].pc = "readBalance" /\ adm'[h] # adm[h] /\ users[Row(adm[h].id).user_id] # None)
         => adm'[h].pc = "writeBalance"
    /\ (adm[h].pc = "writeBalance" /\ adm'[h] # adm[h])
         => /\ Row(adm[h].id).status = "approved"
            /\ users'[Row(adm[h].id).user_id] =
                 Some(Val(users[Row(adm[h].id).user_id]) + Val(Row(adm[h].id).amount))
\* C4: approving a pending deposit of amount a whose owner has balance b makes
\* the request approved and the balance b + a, and over any sequence of
\* decisions each deposit is added to its owner's balance at most once.
Thm_C4_DepositCreditedOnce == [](C4_Ledger) /\ [][C4_Approve]_vars
W_C4_DepositCredited ==
  \E id1, id2 \in Existing :
    /\ id1 # id2 /\ Row(id1).user_id = Row(id2).user_id
    /\ \A id \in {id1, id2} :
         Row(id).type = "deposit" /\ Row(id).status = "approved" /\ credits[id] = 1
    /\ users[Row(id1).user_id] = Some(MIN_DEPOSIT + MIN_DEPOSIT) /\ Quiet

\* C5: two deposits of one user approved by concurrent handlers are both in
\* the balance: once each has been credited the balance is the sum of the two.
CE_C5_NoLostCredit ==
  (\A h \in AllHandlers : adm[h].pc = "idle") /\ (\A id \in Existing : credits[id] = 1)
    => \A u \in Users : users[u] # None => Val(users[u]) = Credited(RequestsOf(u))

\* C6: a deposit recorded as approved has been credited to its owner or is
\* still being credited by the handler that approved it.
CE_C6_ApprovalNeverLost ==
  \A id \in Existing :
    (Row(id).type = "deposit" /\ Row(id).status = "approved" /\ CreditAmount(Row(id)) > 0
       /\ users[Row(id).user_id] # None)
    => \/ credits[id] >= 1
       \/ \E h \in AllHandlers : adm[h].id = id /\ adm[h].pc \in {"readBalance", "writeBalance"}

\* C7: the balance of a user changes only in the balance write of a handler
\* approving a deposit of that user; no other step changes or removes it.
Thm_C7_OnlyDepositApprovalCredits ==
  [][\A u \in Users :
       (users[u] # None /\ users'[u] # users[u])
       => \E h \in AllHandlers :
            /\ adm[h].pc = "writeBalance" /\ adm'[h].pc = "notify"
            /\ adm[h].action = "approve"
            /\ Row(adm[h].id).type = "deposit" /\ Row(adm[h].id).user_id = u]_vars
W_C7_WithdrawApprovedNoChange ==
  \E id \in Existing :
    /\ Row(id).type = "withdraw" /\ Row(id).status = "approved"
    /\ users[Row(id).user_id] = Some(0) /\ Quiet

C8_OnlyAdminsRun == \A h \in AllHandlers : adm[h].pc # "idle" => String(adm[h].actor) \in ADMIN_IDS
C8_RefusalChangesNothing ==
  \A h \in AllHandlers :
    (adm'[h] # adm[h] /\ adm'[h].result = "Unauthorized") => (requests' = requests /\ users' = users)
\* C8: a decision sent by an identity outside the administrator set never
\* starts a handler run and changes no request and no balance.
Thm_C8_UnauthorizedChangesNothing == [](C8_OnlyAdminsRun) /\ [][C8_RefusalChangesNothing]_vars
W_C8_UnauthorizedRefused ==
  \E h \in AllHandlers, id \in Existing :
    adm[h].result = "Unauthorized" /\ Row(id).status = "pending" /\ Row(id).resolved_at = None

C9_Tick ==
  /\ (sweep.pc = "idle" /\ sweep'.pc = "loop")
       => \A id \in Existing :
            (Row(id).status = "pending" /\ Row(id).expires_at # None
               /\ Val(Row(id).expires_at) <= now)
            => \E k \in DOMAIN sweep'.pend : sweep'.pend[k].id = id
  /\ (sweep.pc = "loop" /\ sweep'.pc = "idle")
       => \A k \in DOMAIN sweep.pend :
            Val(sweep.pend[k].expires_at) <= sweep.now
            => /\ requests'[sweep.pend[k].id].status = "expired"
               /\ requests'[sweep.pend[k].id].resolved_at = Some(sweep.now)
  /\ \A id \in Existing : Row(id).status = "expired" => requests'[id] = Row(id)
\* C9: a tick selects every pending deposit whose deadline has passed, each
\* of them is expired when the tick completes, and an expired request is not
\* written again.
Thm_C9_DueDepositExpiresOnce == [][C9_Tick]_vars
W_C9_Expired ==
  \E id \in Existing :
    /\ Row(id).status = "expired" /\ Row(id).resolved_at = Some(CHECK_TIMEOUT_MIN)
    /\ Row(id).expires_at = Some(CHECK_TIMEOUT_MIN) /\ sweep.pc = "idle"

C10_NoDeadline ==
  \A id \in Existing :
    Row(id).type = "withdraw" => Row(id).expires_at = None /\ Row(id).status # "expired"
C10_OnlyDecisionsChange ==
  \A id \in Existing :
    (Row(id).type = "withdraw" /\ requests'[id] # Row(id))
    => \E h \in AllHandlers : WritesStatus(h) /\ adm[h].id = id
\* C10: a withdraw request has no deadline, is never expired, and is changed
\* only by the status write of a decision handler.
Thm_C10_WithdrawNeverExpires == [](C10_NoDeadline) /\ [][C10_OnlyDecisionsChange]_vars
W_C10_WithdrawStillPending ==
  \E id \in Existing :
    Row(id).type = "withdraw" /\ Row(id).status = "pending" /\ now >= CHECK_TIMEOUT_MIN

\* C11: when the UPDATE of one due row fails within a tick, every other due
\* row that the tick selected is expired when the tick ends.
CE_C11_SweepSurvivesRowFailure ==
  [][(sweep.pc = "loop" /\ sweep'.pc = "idle")
       => \A k \in DOMAIN sweep.pend :
            (k # sweep.i /\ Val(sweep.pend[k].expires_at) <= sweep.now)
            => requests'[sweep.pend[k].id].status = "expired"]_vars

\* a handler that has reached its messages has recorded its decision
C12_Recorded ==
  \A h \in AllHandlers :
    adm[h].pc = "notify"
    => /\ Row(adm[h].id).status = DecisionStatus(adm[h].action)
       /\ Row(adm[h].id).resolved_at # None
C12_NotifyKeeps ==
  \A h \in AllHandlers :
    (adm[h].pc = "notify" /\ adm'[h] # adm[h])
    => /\ adm'[h].pc = "idle" /\ adm'[h].result = DecisionResult(adm[h].action)
       /\ requests' = requests /\ users' = users /\ credits' = credits
\* C12: a message to the user or an edit of the admin message that fails
\* after the decision was written leaves the terminal status and the
\* credited balance as they were written.
Thm_C12_FailedMessageKeepsDecision == [](C12_Recorded) /\ [][C12_NotifyKeeps]_vars
W_C12_ApprovedUndelivered ==
  \E h \in AllHandlers, id \in Existing :
    /\ adm[h].pc = "idle" /\ adm[h].result = "Approved" /\ adm[h].delivered = "failed"
    /\ Row(id).type = "deposit" /\ Row(id).status = "approved" /\ credits[id] = 1
    /\ users[Row(id).user_id] = Some(MIN_DEPOSIT)
    /\ \A other \in Existing \ {id} : Row(other).status = "pending"

\* C13: when a flow handler that has stored its request ends, whether or not
\* the admins could be notified, the session is reset to no flow and empty data.
CE_C13_FlowEndResetsSession ==
  [][\A u \in Users :
       inflight'[u] < inflight[u]
       => session'[u].flow = "null" /\ session'[u].data = EmptyData]_vars

\* user u is at step `step` of flow `flow` and no admin mode takes the text
AtStep(u, flow, step) ==
  /\ session[u].flow = flow /\ session[u].data.step = step
  /\ ~(String(u) \in ADMIN_IDS /\ session[u].adminMode # "null")
\* the step changes nothing but the session of u
OnlySession(u) ==
  /\ \A v \in Users \ {u} : session'[v] = session[v]
  /\ requests' = requests /\ users' = users /\ providers' = providers
C14_AmountStep(u, raw) ==
  LET amount == parseInt(trim(raw))
  IN IF amount = None \/ Val(amount) < MIN_DEPOSIT
     THEN session' = session /\ requests' = requests
     ELSE /\ session'[u] = [session[u] EXCEPT
                !.data.amount = amount,
                !.data.step = "deposit_wait_check",
                !.data.expiresAt = Some(now + CHECK_TIMEOUT_MIN)]
          /\ OnlySession(u)
\* C14: at the deposit amount step a text that does not parse as an integer
\* of at least the minimum leaves the session as it is; one that does stores
\* the amount, moves to the proof step and sets the deadline to the time of
\* the input plus the timeout.
Thm_C14_AmountStep ==
  [][\A u \in Users, raw \in FlowTexts :
       (AtStep(u, "deposit", "deposit_amount") /\ OnText(u, raw)) => C14_AmountStep(u, raw)]_vars
W_C14_AmountAcceptedLate ==
  \E u \in Users :
    /\ session[u].flow = "deposit" /\ session[u].data.step = "deposit_wait_check"
    /\ session[u].data.amount = Some(MIN_DEPOSIT)
    /\ now = CHECK_TIMEOUT_MIN
    /\ session[u].data.expiresAt = Some(CHECK_TIMEOUT_MIN + CHECK_TIMEOUT_MIN)

\* the requests that this step creates
Created == (DOMAIN requests') \ Existing
\* a session at the proof step holds the deadline fixed with the amount
C15_DeadlineHeld ==
  \A u \in Users :
    session[u].data.step = "deposit_wait_check" => session[u].data.expiresAt # None
\* the deadline in a session is set only when an amount is accepted, to the
\* time of that input plus the timeout, and is otherwise only cleared
C15_DeadlineFixed ==
  \A u \in Users :
    session'[u].data.expiresAt # session[u].data.expiresAt
    => \/ session'[u].data.expiresAt = None
       \/ /\ session[u].data.step = "deposit_amount"
          /\ session'[u].data.step = "deposit_wait_check"
          /\ session'[u].data.expiresAt = Some(now + CHECK_TIMEOUT_MIN)
\* a deposit is created with the deadline its owner's session holds
C15_DeadlineCopied ==
  \A id \in Created :
    requests'[id].type = "deposit"
    => /\ session[requests'[id].user_id].data.expiresAt # None
       /\ requests'[id].expires_at = session[requests'[id].user_id].data.expiresAt
\* C15: every deposit is created with the deadline computed when its amount
\* was accepted, however much later the photo arrives.
Thm_C15_DeadlineFromAcceptance ==
  [](C15_DeadlineHeld) /\ [][C15_DeadlineFixed /\ C15_DeadlineCopied]_vars
W_C15_PhotoAtDeadline ==
  \E id \in Existing :
    /\ Row(id).type = "deposit" /\ Row(id).created_at = CHECK_TIMEOUT_MIN
    /\ Row(id).expires_at = Some(CHECK_TIMEOUT_MIN)

\* C16: at the proof step of the deposit flow the session changes only by
\* being reset (the photo was handled, or the flow was cancelled), and a
\* deposit is created only from a session at the proof step.
CE_C16_OnlyPhotoAdvances ==
  [][\A u \in Users :
       /\ (session[u].flow = "deposit" /\ session[u].data.step = "deposit_wait_check"
             /\ session'[u] # session[u])
          => session'[u].flow = "null" /\ session'[u].data = EmptyData
       /\ \A id \in Created :
            (requests'[id].type = "deposit" /\ requests'[id].user_id = u)
            => session[u].flow = "deposit" /\ session[u].data.step = "deposit_wait_check"]_vars

\* a session without a flow holds nothing that a flow has collected
C17_NoFlowNoData ==
  \A u \in Users :
    session[u].flow = "null"
    => /\ session[u].data.step = "null" /\ session[u].data.userGameId = None
       /\ session[u].data.amount = None /\ session[u].data.expiresAt = None
       /\ session[u].data.code = None /\ session[u].data.card = None
\* a cancel, and every step that ends a flow, empties the data and creates nothing
C17_CancelResets ==
  \A u \in Users :
    (Cancel(u) \/ (session[u].flow # "null" /\ session'[u].flow = "null"))
    => /\ session'[u].flow = "null" /\ session'[u].data = EmptyData
       /\ requests' = requests
\* a request is created from what the session of a running flow holds
C17_CreatedFromSession ==
  \A id \in Created :
    LET d == session'[requests'[id].user_id].data
    IN /\ session[requests'[id].user_id].flow = requests'[id].type
       /\ requests'[id].provider_id = d.providerId
       /\ requests'[id].amount = d.amount
       /\ requests'[id].details.userGameId = d.userGameId
       /\ requests'[id].details.code = d.code
       /\ requests'[id].details.card = d.card
\* C17: a cancel at any step of a flow resets the session to no flow and
\* empty data and creates no request, and nothing collected before it is in
\* a request created later.
Thm_C17_CancelLeavesNothing ==
  [](C17_NoFlowNoData) /\ [][C17_CancelResets /\ C17_CreatedFromSession]_vars
W_C17_CancelledMidFlow ==
  \E u \in Users :
    /\ cancelled[u] /\ session[u].flow = "null" /\ session[u].data = EmptyData
    /\ Existing = {} /\ inflight[u] = 0

C18_CodeStep(u, raw) ==
  LET code == toUpperCase(trim(raw))
  IN IF code \in [1 .. 4 -> Range(UpperSeq) \cup Digits]
     THEN /\ session'[u] = [session[u] EXCEPT
                !.data.code = Some(code), !.data.step = "withdraw_card"]
          /\ OnlySession(u)
     ELSE session' = session /\ requests' = requests
\* C18: at the withdraw code step the text is put in upper case and accepted
\* exactly when that is 4 characters of A-Z and 0-9: it is then stored and the
\* step becomes the card step; any other text leaves the session as it is.
Thm_C18_CodeStep ==
  [][\A u \in Users, raw \in FlowTexts :
       (AtStep(u, "withdraw", "withdraw_code") /\ OnText(u, raw)) => C18_CodeStep(u, raw)]_vars
W_C18_CodeNormalized ==
  \E u \in Users :
    /\ session[u].flow = "withdraw" /\ session[u].data.step = "withdraw_card"
    /\ session[u].data.code = Some(<<"A", "9", "K", "3">>)

\* user u sends a text message: the menu text of a flow, or a text that no
\* menu handler matches
TextEvent(u) ==
  \/ HearsDeposit(u) \/ HearsWithdraw(u)
  \/ \E raw \in FlowTexts : OnText(u, raw)
\* C19: while an admin mode is set in an administrator's session, a text
\* message from that administrator, whatever it says, clears the mode, leaves
\* flow and data as they are and creates no request.
CE_C19_AdminModeTakesNextText ==
  [][\A u \in Users :
       (String(u) \in ADMIN_IDS /\ session[u].adminMode # "null" /\ TextEvent(u))
       => /\ session'[u].adminMode = "null"
          /\ session'[u].flow = session[u].flow /\ session'[u].data = session[u].data
          /\ requests' = requests]_vars

\* C20: the owner of every stored request has a row in the users table.
CE_C20_OwnerExists ==
  \A id \in Existing : users[Row(id).user_id] # None

\* once no handler and no tick is running, only approved requests have been credited
C21_CreditedIsApproved ==
  Quiet => \A id \in Existing : credits[id] >= 1 => Row(id).status = "approved"
\* a request that is expired is not written as approved
C21_ExpiredStaysUnapproved ==
  \A id \in Existing : Row(id).status = "expired" => requests'[id].status # "approved"
\* C21: under any interleaving of sweeper ticks and decision handlers no
\* request that ends as expired or rejected has been added to a balance, and
\* no request written as expired is afterwards written as approved.
CE_C21_CreditOnlyIfApproved ==
  [](C21_CreditedIsApproved) /\ [][C21_ExpiredStaysUnapproved]_vars

C22_Provider(r) == r.provider_id # None /\ r.provider_name # None
C22_Deposit(r) ==
  /\ C22_Provider(r) /\ r.details.userGameId # None
  /\ r.amount # None /\ Val(r.amount) >= MIN_DEPOSIT
  /\ r.details.checkFileId # None /\ r.expires_at # None
C22_Withdraw(r) ==
  /\ C22_Provider(r) /\ r.details.userGameId # None
  /\ r.details.code # None /\ Val(r.details.code) \in [1 .. 4 -> Range(UpperSeq) \cup Digits]
  /\ r.details.card # None
  /\ Len(Val(r.details.card)) \in 12 .. 20
  /\ \A i \in DOMAIN Val(r.details.card) : Val(r.details.card)[i] \in Digits
  /\ r.amount = None /\ r.expires_at = None
C22_Complete ==
  \A id \in Existing :
    IF Row(id).type = "deposit" THEN C22_Deposit(Row(id))
    ELSE Row(id).type = "withdraw" /\ C22_Withdraw(Row(id))
\* a request is created pending, from a session at the last step of its flow
C22_CreatedPending ==
  \A id \in Created :
    /\ requests'[id].status = "pending"
    /\ session[requests'[id].user_id].data.step =
         (IF requests'[id].type = "deposit" THEN "deposit_wait_check" ELSE "withdraw_card")
\* C22: every deposit has a provider, a game id, an amount of at least the
\* minimum, a photo and a deadline; every withdraw has a provider, a game id,
\* a code of 4 characters of A-Z and 0-9, a card of 12 to 20 digits, no amount
\* and no deadline; and every request is created pending, whatever the order
\* of menu texts, provider buttons, cancels, texts and photos.
Thm_C22_RequestsComplete == [](C22_Complete) /\ [][C22_CreatedPending]_vars
W_C22_WithdrawAfterRestart ==
  \E id \in Existing :
    /\ Row(id).type = "withdraw" /\ cancelled[Row(id).user_id]
    /\ Row(id).details.code = Some(<<"A", "9", "K", "3">>)
    /\ Row(id).details.card = Some(StripSpaces(T_Long))

\* C23: a user creates at most one request between two menu commands, also
\* when two photos (or two card texts) are handled at once and when the photo
\* is sent again after a failed message to an administrator.
CE_C23_OneRequestPerRun == \A u \in Users : made[u] <= 1
====
